---- MODULE Spec2Model ----
(***************************************************************************)
(* claude-memory: the staleness-aware scan / merge / persist core.         *)
(*                                                                         *)
(* State: the files under ~/.claude-memory (context.json, its .bak, the    *)
(* markdown rendering, the two temp files), the clock, and the part of the *)
(* projects' working copies the staleness detector reads (latest commit    *)
(* time, latest key-file modification time).                               *)
(* One action per CLI command / MCP tool handler, each modelling the whole *)
(* handler including the persist it ends with.                             *)
(***************************************************************************)
EXTENDS Integers, Sequences, FiniteSets, TLC

VARIABLES now, live, bak, md, tmpJson, tmpMd, lastCommit, keyMtime, last, probe

vars == <<now, live, bak, md, tmpJson, tmpMd, lastCommit, keyMtime, last, probe>>

(***************************************************************************)
(* Bounds and program constants                                            *)
(***************************************************************************)
\* clock ticks per day (the code counts milliseconds; the model counts
\* fractions of a day so that Math.floor has something to round)
DayLen == 2
\* the clock runs over MaxDays days
MaxDays == 8
MaxTime == MaxDays * DayLen
\* the detector is run with a maxDepth of at most this
MaxDepth == 2
\* the schema versions a stored context.json can carry run up to this one
MaxVersion == 2
\* the global insights list is capped at this length
MaxInsights == 2
\* and the exclusion list at this one
MaxExcluded == 2

SCHEMA_VERSION == 1
STALE == 7

\* a time that is before every time: no commit / no key file
NoTime == 0 - 1

Paths == {"A", "B", "C"}
Contents == {"n1", "n2"}

(***************************************************************************)
(* Generic helpers                                                         *)
(***************************************************************************)
Range(s) == {s[i] : i \in DOMAIN s}

\* Array.prototype.filter
RECURSIVE SelectPath(_, _)
SelectPath(s, keep) ==
  IF s = <<>> THEN <<>>
  ELSE IF Head(s) \in keep THEN <<Head(s)>> \o SelectPath(Tail(s), keep)
       ELSE SelectPath(Tail(s), keep)

\* duplicate-free sequences over S
DistinctSeqs(S) ==
  {q \in UNION {[1..n -> S] : n \in 0..Cardinality(S)} :
      \A i, j \in DOMAIN q : i # j => q[i] # q[j]}

\* an insertion that puts x before the elements whose key equals its own
RECURSIVE InsertDescBeforeTies(_, _, _)
InsertDescBeforeTies(x, s, key) ==
  IF s = <<>> THEN <<x>>
  ELSE IF Head(s)[key] > x[key]
       THEN <<Head(s)>> \o InsertDescBeforeTies(x, Tail(s), key)
       ELSE <<x>> \o s

\* stable insertion of record x into s, which is sorted by non-increasing
\* x[key]: x goes after every element whose key is >= its own
RECURSIVE InsertDesc(_, _, _)
InsertDesc(x, s, key) ==
  IF s = <<>> THEN <<x>>
  ELSE IF Head(s)[key] >= x[key] THEN <<Head(s)>> \o InsertDesc(x, Tail(s), key)
       ELSE <<x>> \o s

\* Array.prototype.sort((a, b) => b[key] - a[key]): stable, descending
RECURSIVE SortDesc(_, _)
SortDesc(s, key) ==
  IF s = <<>> THEN <<>>
  ELSE InsertDesc(s[Len(s)], SortDesc(SubSeq(s, 1, Len(s) - 1), key), key)

(***************************************************************************)
(* Data model (types/index.ts)                                             *)
(***************************************************************************)
\* ProjectInfo, reduced to the fields the scan/merge core reads or writes
ProjectInfo(p, scanned, activity) ==
  [path |-> p, lastScanned |-> scanned, lastActivity |-> activity]

\* GlobalInsight, reduced to its content
GlobalInsight(c) == c

\* GlobalContext; schemaVersion and excludedProjects may be missing from a
\* stored object (hasVersion / hasExcluded say whether the key is there)
GlobalContext(hasV, v, updated, projects, insights, patterns, hasE, excluded) ==
  [hasVersion |-> hasV, schemaVersion |-> v, lastUpdated |-> updated,
   projects |-> projects, insights |-> insights, userPatterns |-> patterns,
   hasExcluded |-> hasE, excludedProjects |-> excluded]

NoContext == GlobalContext(FALSE, 0, 0, <<>>, <<>>, <<>>, FALSE, <<>>)

\* a file on disk: missing, present but not parseable, or JSON text
AbsentFile == [kind |-> "absent", ctx |-> NoContext]
CorruptFile == [kind |-> "corrupt", ctx |-> NoContext]
\* JSON.stringify(context, null, 2): keys whose value is undefined are left out
JsonStringify(ctx) == [kind |-> "json", ctx |-> ctx]

\* the project paths of a context, in list order
RECURSIVE PathsOf(_)
PathsOf(projects) ==
  IF projects = <<>> THEN <<>>
  ELSE <<Head(projects).path>> \o PathsOf(Tail(projects))

(***************************************************************************)
(* contextGenerator.ts                                                     *)
(***************************************************************************)
\* a migration that rebuilds every stored object as one of the current version
migrateContextRebuildingAll(data) ==
  GlobalContext(TRUE, SCHEMA_VERSION, data.lastUpdated, data.projects,
                data.insights, data.userPatterns, TRUE, <<>>)

\* migrateContext
migrateContext(data) ==
  LET version == IF data.hasVersion THEN data.schemaVersion ELSE 0
  IN IF version < 1
     THEN GlobalContext(TRUE, SCHEMA_VERSION, data.lastUpdated, data.projects,
                        data.insights, data.userPatterns, TRUE, <<>>)
     ELSE data

\* a load without the try / catch around JSON.parse: what is in an
\* unparseable file is taken for a snapshot
loadExistingContextUnguarded(file) ==
  IF file.kind = "absent"
  THEN [some |-> FALSE, ctx |-> NoContext]
  ELSE [some |-> TRUE, ctx |-> migrateContext(file.ctx)]

\* loadExistingContext: null (some = FALSE) for a missing or unparseable file
loadExistingContext(file) ==
  IF file.kind = "json"
  THEN [some |-> TRUE, ctx |-> migrateContext(file.ctx)]
  ELSE [some |-> FALSE, ctx |-> NoContext]

\* loadContext of cli.ts and mcp/server.ts: JSON.parse with no migration
loadContext(file) ==
  IF file.kind = "json"
  THEN [some |-> TRUE, ctx |-> file.ctx]
  ELSE [some |-> FALSE, ctx |-> NoContext]

\* generateGlobalContext
generateGlobalContext(projects, file, time) ==
  LET existing == loadExistingContext(file)
  IN GlobalContext(TRUE, SCHEMA_VERSION, time, projects,
                   IF existing.some THEN existing.ctx.insights ELSE <<>>,
                   IF existing.some THEN existing.ctx.userPatterns ELSE <<>>,
                   TRUE,
                   IF existing.some THEN existing.ctx.excludedProjects ELSE <<>>)

\* formatGlobalContextMarkdown: the header date, the projects most recent
\* activity first, the total
formatGlobalContextMarkdown(ctx) ==
  [kind |-> "md", lastUpdated |-> ctx.lastUpdated,
   projects |-> SortDesc(ctx.projects, "lastActivity"),
   total |-> Len(ctx.projects)]

AbsentMd == [kind |-> "absent", lastUpdated |-> 0, projects |-> <<>>, total |-> 0]

\* What can go wrong in one call of writeGlobalContext: nothing, or one step
\* throwing (temp write, rendering / markdown temp write, either rename), or
\* the temp file not reading back as written (unparseable, or a project short)
Faults == {"none", "tempWrite", "render", "readCorrupt", "countMismatch",
           "renameJson", "renameMd"}
\* the unlink that fails during cleanup, if any
Cleanups == {"ok", "failJson", "failMd"}

\* context.json.tmp as the verification step finds it
TempAsRead(context, fault) ==
  CASE fault = "readCorrupt" -> CorruptFile
    [] fault = "countMismatch" ->
         JsonStringify([context EXCEPT
                          !.projects = SubSeq(@, 1, Len(@) - 1)])
    [] OTHER -> JsonStringify(context)

\* a verification that only parses the temp file and compares no counts
VerificationParsesOnly(temp, context) == temp.kind = "json"

\* the verification of lines 105-111: the temp file parses and holds as many
\* projects as the context in memory
VerificationPasses(temp, context) ==
  /\ temp.kind = "json"
  /\ Len(temp.ctx.projects) = Len(context.projects)

\* the catch block's cleanup: unlink both temp files if they exist; an error
\* while doing so is ignored (and ends the cleanup)
CleanUp(jsonTmp, mdTmp, cleanup) ==
  CASE cleanup = "failJson" /\ jsonTmp -> [tmpJson |-> TRUE, tmpMd |-> mdTmp]
    [] cleanup = "failMd" /\ mdTmp -> [tmpJson |-> FALSE, tmpMd |-> TRUE]
    [] OTHER -> [tmpJson |-> FALSE, tmpMd |-> FALSE]

\* a persist that takes no backup
backupSkipped(fs, backupFails) == fs.bak

\* lines 89-96: context.json, if there is one, is copied to context.json.bak;
\* a failure of the copy is only warned about
backup(fs, backupFails) ==
  IF fs.live.kind # "absent" /\ ~backupFails THEN fs.live ELSE fs.bak

\* writeGlobalContext: the files after the call and whether it threw.
\* fs is the files before the call.
writeGlobalContext(context, fs, fault, backupFails, cleanup) ==
  LET bak1 == backup(fs, backupFails)
      temp == TempAsRead(context, fault)
      Raise(jsonTmp, mdTmp, newLive) ==
        LET c == CleanUp(jsonTmp, mdTmp, cleanup)
        IN [live |-> newLive, bak |-> bak1, md |-> fs.md,
            tmpJson |-> c.tmpJson, tmpMd |-> c.tmpMd, raised |-> TRUE]
  IN CASE fault = "tempWrite" -> Raise(fs.tmpJson, fs.tmpMd, fs.live)
       [] fault = "render" -> Raise(TRUE, fs.tmpMd, fs.live)
       [] ~VerificationPasses(temp, context) -> Raise(TRUE, TRUE, fs.live)
       [] fault = "renameJson" -> Raise(TRUE, TRUE, fs.live)
       [] fault = "renameMd" -> Raise(FALSE, TRUE, temp)
       [] OTHER ->
            [live |-> temp, bak |-> bak1,
             md |-> formatGlobalContextMarkdown(context),
             tmpJson |-> FALSE, tmpMd |-> FALSE, raised |-> FALSE]

(***************************************************************************)
(* stalenessDetector.ts                                                    *)
(***************************************************************************)
\* hasNewCommits: no .git, no commit or a failing git all answer false
hasNewCommits(projectPath, lastScanned) ==
  /\ lastCommit[projectPath] # NoTime
  /\ lastCommit[projectPath] > lastScanned

\* hasModifiedFiles: some key file's mtime is after lastScanned
hasModifiedFiles(projectPath, lastScanned) ==
  /\ keyMtime[projectPath] # NoTime
  /\ keyMtime[projectPath] > lastScanned

\* Math.floor((now - lastScanned) / one day)
DaysSince(lastScanned, time) == (time - lastScanned) \div DayLen

\* an age test that needs more than the threshold
AgeExceeded(days) == days > STALE

\* daysSinceScanned >= STALENESS_THRESHOLDS.STALE
AgeReached(days) == days >= STALE

\* a staleness check that looks at the age before the commits and the files
analyzeProjectStalenessAgeFirst(project, time) ==
  LET days == DaysSince(project.lastScanned, time)
      Verdict(stale, reason) ==
        [stale |-> stale, path |-> project.path,
         daysSinceScanned |-> days, reason |-> reason]
  IN IF AgeReached(days)
     THEN Verdict(TRUE, "age")
     ELSE IF hasNewCommits(project.path, project.lastScanned)
     THEN Verdict(TRUE, "git_activity")
     ELSE IF hasModifiedFiles(project.path, project.lastScanned)
     THEN Verdict(TRUE, "file_changed")
     ELSE Verdict(FALSE, "fresh")

\* analyzeProjectStaleness: the StaleProject, or null (stale = FALSE)
analyzeProjectStaleness(project, time) ==
  LET days == DaysSince(project.lastScanned, time)
      Verdict(stale, reason) ==
        [stale |-> stale, path |-> project.path,
         daysSinceScanned |-> days, reason |-> reason]
  IN IF hasNewCommits(project.path, project.lastScanned)
     THEN Verdict(TRUE, "git_activity")
     ELSE IF hasModifiedFiles(project.path, project.lastScanned)
     THEN Verdict(TRUE, "file_changed")
     ELSE IF AgeReached(days)
     THEN Verdict(TRUE, "age")
     ELSE Verdict(FALSE, "fresh")

\* the loop of detectStaleProjects: the stale verdicts in project order
RECURSIVE StaleIn(_, _)
StaleIn(projects, time) ==
  IF projects = <<>> THEN <<>>
  ELSE LET v == analyzeProjectStaleness(Head(projects), time)
       IN (IF v.stale THEN <<v>> ELSE <<>>) \o StaleIn(Tail(projects), time)

\* detectStaleProjects
detectStaleProjects(context, time) ==
  LET staleProjects == SortDesc(StaleIn(context.projects, time), "daysSinceScanned")
  IN [dataAge |-> time - context.lastUpdated,
      staleProjects |-> staleProjects,
      freshCount |-> Len(context.projects) - Len(staleProjects)]

(***************************************************************************)
(* projectScanner.ts                                                       *)
(***************************************************************************)
\* a record that is not dated with the time of the scan
analyzeProjectUndated(projectPath, time) ==
  ProjectInfo(projectPath, 0,
              IF lastCommit[projectPath] # NoTime
              THEN lastCommit[projectPath] ELSE time)

\* analyzeProject: the record of a project analysed at `time`
analyzeProject(projectPath, time) ==
  ProjectInfo(projectPath, time,
              IF lastCommit[projectPath] # NoTime
              THEN lastCommit[projectPath] ELSE time)

\* a loop without the try / catch around analyzeProject: it ends at the
\* first path whose analysis throws
RECURSIVE AnalyzeUntilFailure(_, _, _)
AnalyzeUntilFailure(paths, skipped, time) ==
  IF paths = <<>> \/ Head(paths) \in skipped THEN <<>>
  ELSE <<analyzeProject(Head(paths), time)>>
       \o AnalyzeUntilFailure(Tail(paths), skipped, time)

\* The directories under a scan root, each the list of names leading to it
\* from the root (<<>> is the root itself)
DirTree ==
  {<<>>, <<"a">>, <<"a", "b">>, <<"a", "b", "c">>, <<"a", "b", "c", "d">>,
   <<"f">>, <<"node_modules">>, <<"node_modules", "e">>}

\* the names readdirSync can return, in the order it returns them
EntryOrder == <<"a", "b", "c", "d", "e", "f", "node_modules">>

\* of DEFAULT_SCAN_OPTIONS.ignore, the name met in DirTree
Ignore == {"node_modules"}

\* the subdirectories of dir, in readdir order
SubDirs(dir) ==
  SelectSeq(EntryOrder, LAMBDA n : Append(dir, n) \in DirTree)

\* a walk that goes on below a project root
RECURSIVE walkNested(_, _, _, _, _)
RECURSIVE walkNestedEntries(_, _, _, _, _, _)
walkNested(dir, depth, maxDepth, markers, unreadable) ==
  IF depth > maxDepth \/ dir \in unreadable THEN <<>>
  ELSE (IF dir \in markers THEN <<dir>> ELSE <<>>)
       \o walkNestedEntries(dir, SubDirs(dir), depth, maxDepth, markers, unreadable)

walkNestedEntries(dir, entries, depth, maxDepth, markers, unreadable) ==
  IF entries = <<>> THEN <<>>
  ELSE (IF Head(entries) \in Ignore THEN <<>>
        ELSE walkNested(Append(dir, Head(entries)), depth + 1, maxDepth,
                        markers, unreadable))
       \o walkNestedEntries(dir, Tail(entries), depth, maxDepth, markers, unreadable)

\* walk of findProjectRoots: the roots it pushes, in order.  markers: the
\* directories holding package.json, Cargo.toml, pyproject.toml, go.mod or
\* .git; unreadable: the directories readdirSync throws on
RECURSIVE walk(_, _, _, _, _)
RECURSIVE walkEntries(_, _, _, _, _, _)
walk(dir, depth, maxDepth, markers, unreadable) ==
  IF depth > maxDepth THEN <<>>
  ELSE IF dir \in unreadable THEN <<>>
  ELSE IF dir \in markers THEN <<dir>>
  ELSE walkEntries(dir, SubDirs(dir), depth, maxDepth, markers, unreadable)

\* the loop over the entries of dir
walkEntries(dir, entries, depth, maxDepth, markers, unreadable) ==
  IF entries = <<>> THEN <<>>
  ELSE (IF Head(entries) \in Ignore THEN <<>>
        ELSE walk(Append(dir, Head(entries)), depth + 1, maxDepth,
                  markers, unreadable))
       \o walkEntries(dir, Tail(entries), depth, maxDepth, markers, unreadable)

\* findProjectRoots
findProjectRoots(maxDepth, markers, unreadable) ==
  walk(<<>>, 0, maxDepth, markers, unreadable)

\* the VCS fields analyzeProject starts from (lines 169-171)
GitDefaults(time) ==
  [currentBranch |-> "unknown", isDirty |-> FALSE, lastActivity |-> time]

\* lines 168-201 of analyzeProject: the three VCS fields of the record.
\* log and status say how git.log and git.status end: "ok", "fail" (the
\* promise rejects) or "hang" (the 10 s timer rejects first); gitOps
\* assigns lastActivity when the log has arrived and the other two fields
\* when the status has arrived, and the catch block assigns nothing
gitInfo(hasGit, log, status, time) ==
  LET afterLog ==
        IF log.outcome = "ok" /\ log.latest # NoTime
        THEN [GitDefaults(time) EXCEPT !.lastActivity = log.latest]
        ELSE GitDefaults(time)
  IN IF ~hasGit THEN GitDefaults(time)
     ELSE IF log.outcome = "ok" /\ status.outcome = "ok"
     THEN [afterLog EXCEPT
             !.currentBranch = IF status.current = "" THEN "unknown"
                               ELSE status.current,
             !.isDirty = ~status.clean]
     ELSE afterLog

\* the loops of scanProjects: a record for each path that exists and whose
\* analysis does not throw, in order
RECURSIVE AnalyzeAll(_, _, _)
AnalyzeAll(paths, skipped, time) ==
  IF paths = <<>> THEN <<>>
  ELSE (IF Head(paths) \in skipped THEN <<>>
        ELSE <<analyzeProject(Head(paths), time)>>)
       \o AnalyzeAll(Tail(paths), skipped, time)

\* scanProjects.  onlyPaths: the paths of a quick scan (<<>> when not given);
\* rootExists, candidates: what the detector finds under the root directory;
\* missing: paths that no longer exist; failing: paths whose analysis throws
scanProjects(onlyPaths, rootExists, candidates, missing, failing, file, time) ==
  IF Len(onlyPaths) > 0
  THEN AnalyzeAll(onlyPaths, missing \cup failing, time)
  ELSE IF ~rootExists \/ candidates = <<>> THEN <<>>
  ELSE LET existingContext == loadExistingContext(file)
           excludedProjects ==
             IF existingContext.some
             THEN Range(existingContext.ctx.excludedProjects) ELSE {}
           filteredCandidates ==
             SelectPath(candidates, Paths \ excludedProjects)
       IN AnalyzeAll(filteredCandidates, failing, time)

\* the pushes to `errors` in the loops of scanProjects: the paths whose
\* analysis throws, in order, each with the message of what was thrown
RECURSIVE ErrorsOf(_, _, _)
ErrorsOf(paths, failing, messages) ==
  IF paths = <<>> THEN <<>>
  ELSE (IF Head(paths) \in failing
        THEN <<[path |-> Head(paths), error |-> messages[Head(paths)]]>>
        ELSE <<>>)
       \o ErrorsOf(Tail(paths), failing, messages)

\* the `errors` array of scanProjects when it returns
scanErrors(onlyPaths, rootExists, candidates, missing, failing, messages, file) ==
  IF Len(onlyPaths) > 0
  THEN ErrorsOf(SelectPath(onlyPaths, Paths \ missing), failing, messages)
  ELSE IF ~rootExists \/ candidates = <<>> THEN <<>>
  ELSE LET existingContext == loadExistingContext(file)
           excludedProjects ==
             IF existingContext.some
             THEN Range(existingContext.ctx.excludedProjects) ELSE {}
       IN ErrorsOf(SelectPath(candidates, Paths \ excludedProjects),
                   failing, messages)

(***************************************************************************)
(* The files and the record of the last command                            *)
(***************************************************************************)
Files == [live |-> live, bak |-> bak, md |-> md, tmpJson |-> tmpJson, tmpMd |-> tmpMd]

FilesUnchanged == UNCHANGED <<live, bak, md, tmpJson, tmpMd>>

\* probe holds the arguments and the result of a single function call that
\* is looked at on its own; no command touches it
NoProbe == [kind |-> "none"]

EnvUnchanged == UNCHANGED <<now, lastCommit, keyMtime, probe>>

\* what the last command was and how it ended:
\*   op       "full" (scan), "quick" (scan --quick), "check" (scan --check),
\*            "exclude", "include", "insight", or "none"
\*   outcome  how the handler returned
\*   merge    the merge a scan performed: "full", "incremental" or "none"
\*   scanned  the paths scanProjects returned records for, in order
\*   fault    the fault met by the persist of a scan
\*   cleanup  how the cleanup after that fault went
\*   report   the stale verdicts of a staleness check, in report order
Outcome(op, outcome, merge, scanned, fault, cleanup, report) ==
  [op |-> op, outcome |-> outcome, merge |-> merge, scanned |-> scanned,
   fault |-> fault, cleanup |-> cleanup, report |-> report]

\* a handler that returns without scanning or persisting
Returned(op, outcome) == Outcome(op, outcome, "none", <<>>, "none", "ok", <<>>)

Idle == Returned("none", "none")

(***************************************************************************)
(* cli.ts: the scan command                                                *)
(***************************************************************************)
\* an incremental merge that keeps only the rescanned records
quickMergeRescannedOnly(existingContext, projects, time) ==
  [existingContext EXCEPT !.lastUpdated = time, !.projects = projects]

\* an incremental merge that does not take the rescanned paths out of the
\* existing records
quickMergeUnfiltered(existingContext, projects, time) ==
  [existingContext EXCEPT !.lastUpdated = time,
                          !.projects = existingContext.projects \o projects]

\* the incremental merge of lines 329-336
quickMerge(existingContext, projects, time) ==
  LET rescannedPaths == Range(PathsOf(projects))
      unchangedProjects ==
        SelectSeq(existingContext.projects,
                  LAMBDA q : q.path \notin rescannedPaths)
  IN [existingContext EXCEPT !.lastUpdated = time,
                             !.projects = unchangedProjects \o projects]

\* lines 298-309: with --quick and a loadable context, the stale paths
\* (none = nothing to rescan given)
projectsToScan(quick, file, time) ==
  LET existingContext == loadContext(file)
  IN IF quick /\ existingContext.some
     THEN [given |-> TRUE,
           paths |-> PathsOf(detectStaleProjects(existingContext.ctx, time).staleProjects)]
     ELSE [given |-> FALSE, paths |-> <<>>]

\* lines 324-342: the context a scan writes
mergedContext(quick, toScan, projects, file, time) ==
  LET existingContext == loadContext(file)
  IN IF quick /\ toScan.given /\ existingContext.some
     THEN quickMerge(existingContext.ctx, projects, time)
     ELSE generateGlobalContext(projects, file, time)

\* a quick scan that goes on with an empty list of stale paths
NeverUpToDate(toScan) == FALSE

\* a scan that persists an empty result
NeverEmpty(projects) == FALSE

\* lines 302-305: a quick scan with nothing stale returns at once
NothingToScan(toScan) == toScan.given /\ toScan.paths = <<>>

\* line 318: projects.length === 0
NoProjects(projects) == Len(projects) = 0

\* the scan command without --check, as one step
ScanCommand(quick, rootExists, candidates, missing, failing, fault, backupFails, cleanup) ==
  LET op == IF quick THEN "quick" ELSE "full"
      toScan == projectsToScan(quick, live, now)
      projects == scanProjects(toScan.paths, rootExists, candidates,
                               missing, failing, live, now)
      merge == IF toScan.given THEN "incremental" ELSE "full"
      context == mergedContext(quick, toScan, projects, live, now)
      w == writeGlobalContext(context, Files, fault, backupFails, cleanup)
  IN /\ EnvUnchanged
     /\ IF NothingToScan(toScan)
        THEN /\ FilesUnchanged
             /\ last' = Returned(op, "uptodate")
        ELSE IF NoProjects(projects)
        THEN /\ FilesUnchanged
             /\ last' = Outcome(op, "empty", merge, <<>>, "none", "ok", <<>>)
        ELSE /\ live' = w.live
             /\ bak' = w.bak
             /\ md' = w.md
             /\ tmpJson' = w.tmpJson
             /\ tmpMd' = w.tmpMd
             /\ last' = Outcome(op, IF w.raised THEN "raised" ELSE "written",
                                merge, PathsOf(projects), fault, cleanup, <<>>)

\* the candidates the detector can return when `roots` are the project roots
\* that may lie under the scan root: some of them, in directory order, each
\* at most once
Candidates(roots) == {SelectPath(<<"A", "B", "C">>, S) : S \in SUBSET roots}

\* what the detector finds: no root directory, or the candidates under it
RootGone == [exists |-> FALSE, candidates |-> <<>>]

RootStates(roots) ==
  {RootGone}
    \cup {[exists |-> TRUE, candidates |-> c] : c \in Candidates(roots)}

\* the faults of one persist; cleanup only runs when something threw
PersistRuns ==
  {r \in [fault : Faults, backupFails : BOOLEAN, cleanup : Cleanups] :
      r.fault = "none" => r.cleanup = "ok"}

\* the persists that meet no fault and back the live file up
BackedRuns == {r \in PersistRuns : r.fault = "none" /\ ~r.backupFails}

\* the persists that meet no fault but the failure of the backup copy
PlainRuns == {r \in PersistRuns : r.fault = "none" /\ r.backupFails}

\* claude-memory scan [directory]
FullScan(runs, roots) ==
  \E root \in RootStates(roots) :
    \E failing \in SUBSET Range(root.candidates) :
      \E r \in runs :
        ScanCommand(FALSE, root.exists, root.candidates, {}, failing,
                    r.fault, r.backupFails, r.cleanup)

\* claude-memory scan --quick [directory]: of the stale paths each may be
\* gone or fail to analyse; the directory is only looked at when no stale
\* path is handed to the scanner
QuickScan(runs, roots) ==
  LET stale == Range(projectsToScan(TRUE, live, now).paths)
  IN \E root \in IF stale = {} THEN RootStates(roots) ELSE {RootGone} :
       \E missing \in SUBSET stale :
         \E failing \in SUBSET ((stale \cup Range(root.candidates)) \ missing) :
           \E r \in runs :
             ScanCommand(TRUE, root.exists, root.candidates, missing, failing,
                         r.fault, r.backupFails, r.cleanup)

\* a check that persists the snapshot it has looked at, with a new date
CheckScanPersisting ==
  LET context == loadContext(live)
      w == writeGlobalContext([context.ctx EXCEPT !.lastUpdated = now],
                              Files, "none", FALSE, "ok")
  IN /\ EnvUnchanged
     /\ context.some
     /\ live' = w.live
     /\ bak' = w.bak
     /\ md' = w.md
     /\ tmpJson' = w.tmpJson
     /\ tmpMd' = w.tmpMd
     /\ last' = Outcome("check", "reported", "none", <<>>, "none", "ok",
                        detectStaleProjects(context.ctx, now).staleProjects)

\* claude-memory scan --check (lines 263-292): reports, writes nothing
CheckScan ==
  LET context == loadContext(live)
  IN /\ EnvUnchanged
     /\ FilesUnchanged
     /\ last' = IF ~context.some
                THEN Returned("check", "nosnapshot")
                ELSE Outcome("check", "reported", "none", <<>>, "none", "ok",
                             detectStaleProjects(context.ctx, now).staleProjects)

(***************************************************************************)
(* cli.ts: exclude / include                                               *)
(***************************************************************************)
\* an addExclusion that pushes the path without looking for it in the list
addExclusionUnchecked(file, projectPath) ==
  IF file.kind # "json" THEN file
  ELSE JsonStringify([file.ctx EXCEPT !.hasExcluded = TRUE,
                                      !.excludedProjects = Append(@, projectPath)])

\* addExclusion: the file after the call
addExclusion(file, projectPath) ==
  IF file.kind # "json" THEN file
  ELSE IF projectPath \in Range(file.ctx.excludedProjects) THEN file
  ELSE JsonStringify([file.ctx EXCEPT !.hasExcluded = TRUE,
                                      !.excludedProjects = Append(@, projectPath)])

\* removeExclusion: the file after the call
removeExclusion(file, projectPath) ==
  IF file.kind # "json" THEN file
  ELSE JsonStringify([file.ctx EXCEPT
                        !.hasExcluded = TRUE,
                        !.excludedProjects =
                           SelectSeq(@, LAMBDA q : q # projectPath)])

\* claude-memory exclude <project>: the query names a known project, or a
\* directory that exists, or nothing
Exclude(queries) ==
  \E query \in queries, onDisk \in BOOLEAN :
    LET context == loadContext(live)
        known == query \in Range(PathsOf(context.ctx.projects))
    IN /\ Len(live.ctx.excludedProjects) < MaxExcluded
       /\ EnvUnchanged
       /\ UNCHANGED <<bak, md, tmpJson, tmpMd>>
       /\ IF ~context.some
          THEN /\ live' = live
               /\ last' = Returned("exclude", "nosnapshot")
          ELSE IF known \/ onDisk
          THEN /\ live' = addExclusion(live, query)
               /\ last' = Outcome("exclude", "excluded", "none", <<query>>, "none", "ok", <<>>)
          ELSE /\ live' = live
               /\ last' = Returned("exclude", "notfound")

\* claude-memory include <project>
Include(queries) ==
  \E query \in queries :
    LET context == loadContext(live)
    IN /\ EnvUnchanged
       /\ UNCHANGED <<bak, md, tmpJson, tmpMd>>
       /\ IF ~context.some
          THEN /\ live' = live
               /\ last' = Returned("include", "nosnapshot")
          ELSE IF query \in Range(context.ctx.excludedProjects)
          THEN /\ live' = removeExclusion(live, query)
               /\ last' = Outcome("include", "included", "none", <<query>>, "none", "ok", <<>>)
          ELSE /\ live' = live
               /\ last' = Returned("include", "notfound")

(***************************************************************************)
(* mcp/server.ts: record_insight                                           *)
(***************************************************************************)
\* a record_insight that puts the new insight first
handleRecordInsightFirst(file, content) ==
  IF file.kind # "json" THEN file
  ELSE JsonStringify([file.ctx EXCEPT !.insights = <<GlobalInsight(content)>> \o @])

\* a record_insight that starts a context.json when there is none
handleRecordInsightCreating(file, content) ==
  CASE file.kind = "absent" ->
         JsonStringify(GlobalContext(TRUE, SCHEMA_VERSION, 0, <<>>,
                                     <<GlobalInsight(content)>>, <<>>, TRUE, <<>>))
    [] file.kind = "corrupt" -> file
    [] OTHER ->
         JsonStringify([file.ctx EXCEPT !.insights = Append(@, GlobalInsight(content))])

\* handleRecordInsight: the file after the call
handleRecordInsight(file, content) ==
  IF file.kind # "json" THEN file
  ELSE JsonStringify([file.ctx EXCEPT !.insights = Append(@, GlobalInsight(content))])

RecordInsight ==
  \E content \in Contents :
    /\ Len(live.ctx.insights) < MaxInsights
    /\ EnvUnchanged
    /\ UNCHANGED <<bak, md, tmpJson, tmpMd>>
    /\ live' = handleRecordInsight(live, content)
    /\ last' = Returned("insight",
                        CASE live.kind = "absent" -> "nosnapshot"
                          [] live.kind = "corrupt" -> "failed"
                          [] OTHER -> "recorded")

(***************************************************************************)
(* The world outside: the clock and the projects' working copies           *)
(***************************************************************************)
\* the clock advances in steps of half its range
TickLen == MaxTime \div 2

Tick ==
  /\ now + TickLen <= MaxTime
  /\ now' = now + TickLen
  /\ last' = Idle
  /\ FilesUnchanged
  /\ UNCHANGED <<lastCommit, keyMtime, probe>>

\* a commit is made in one of the projects `repos`
Commit(repos) ==
  \E p \in repos :
    /\ lastCommit[p] # now
    /\ lastCommit' = [lastCommit EXCEPT ![p] = now]
    /\ last' = Idle
    /\ FilesUnchanged
    /\ UNCHANGED <<now, keyMtime, probe>>

(***************************************************************************)
(* Specifications                                                          *)
(***************************************************************************)
\* a context.json written by a release before schema versions: no
\* schemaVersion, no excludedProjects
LegacyContext ==
  GlobalContext(FALSE, 0, 0,
                <<ProjectInfo("A", 0, 0), ProjectInfo("B", 0, 0)>>,
                <<"n1">>, <<"tdd">>, FALSE, <<>>)

\* a context.json of the current schema: A scanned and then excluded, B, C
CurrentContext ==
  GlobalContext(TRUE, SCHEMA_VERSION, 0,
                <<ProjectInfo("A", 0, 0), ProjectInfo("B", 0, 0),
                  ProjectInfo("C", 0, 0)>>,
                <<"n1", "n2">>, <<>>, TRUE, <<"A">>)

InitWith(files) ==
  /\ now = 0
  /\ live \in files
  /\ bak = AbsentFile
  /\ md = AbsentMd
  /\ tmpJson = FALSE
  /\ tmpMd = FALSE
  /\ lastCommit = [p \in Paths |-> NoTime]
  /\ keyMtime = [p \in Paths |-> NoTime]
  /\ last = Idle
  /\ probe = NoProbe

\* Spec: every command, over two projects.  The memory directory before
\* the first command holds no context.json, an unreadable one, or one left
\* by an earlier release.
Init == InitWith({AbsentFile, CorruptFile, JsonStringify(LegacyContext)})

Next ==
  \/ FullScan(PlainRuns, {"A", "B"})
  \/ QuickScan(PlainRuns, {"A", "B"})
  \/ CheckScan
  \/ Exclude({"A", "B"})
  \/ Include({"A", "B"})
  \/ RecordInsight
  \/ Tick
  \/ Commit({"B"})

Spec == Init /\ [][Next]_vars

\* SpecScan: the scan command alone, over three projects, with backups
InitScan == InitWith({AbsentFile, JsonStringify(CurrentContext)})

NextScan ==
  \/ FullScan(BackedRuns, Paths)
  \/ QuickScan(BackedRuns, Paths)
  \/ CheckScan
  \/ Tick
  \/ Commit({"B"})

SpecScan == InitScan /\ [][NextScan]_vars

\* SpecPersist: the scan command with every fault of its persist
InitPersist == InitWith({AbsentFile, CorruptFile, JsonStringify(LegacyContext)})

NextPersist ==
  \/ FullScan(PersistRuns, {"B"})
  \/ QuickScan(PersistRuns, {"B"})
  \/ Tick

SpecPersist == InitPersist /\ [][NextPersist]_vars

\* SpecStale: the staleness check of one project, over every scan time,
\* commit time and key-file time
InitStale ==
  /\ now = MaxTime
  /\ \E scanned \in 0..MaxTime :
       live = JsonStringify(GlobalContext(TRUE, SCHEMA_VERSION, scanned,
                                          <<ProjectInfo("B", scanned, scanned)>>,
                                          <<>>, <<>>, TRUE, <<>>))
  /\ bak = AbsentFile
  /\ md = AbsentMd
  /\ tmpJson = FALSE
  /\ tmpMd = FALSE
  /\ lastCommit \in [Paths -> {NoTime}] \cup
                     {[p \in Paths |-> IF p = "B" THEN t ELSE NoTime] : t \in 0..MaxTime}
  /\ keyMtime \in [Paths -> {NoTime}] \cup
                   {[p \in Paths |-> IF p = "B" THEN t ELSE NoTime] : t \in 0..MaxTime}
  /\ last = Idle
  /\ probe = NoProbe

SpecStale == InitStale /\ [][CheckScan]_vars

\* SpecLoad: loading on its own, over stored files of every version
StoredContexts ==
  {GlobalContext(v.has, v.version, updated, projects, insights, patterns,
                 e.has, e.list) :
     v \in {[has |-> FALSE, version |-> 0]}
             \cup {[has |-> TRUE, version |-> n] : n \in 0..MaxVersion},
     updated \in 0..1,
     projects \in {<<>>, <<ProjectInfo("A", 0, 0)>>,
                   <<ProjectInfo("A", 0, 0), ProjectInfo("B", 1, 0)>>},
     insights \in {<<>>, <<"n1">>},
     patterns \in {<<>>, <<"tdd">>},
     e \in {[has |-> FALSE, list |-> <<>>], [has |-> TRUE, list |-> <<>>],
            [has |-> TRUE, list |-> <<"A">>]}}

InitLoad ==
  InitWith({AbsentFile, CorruptFile} \cup {JsonStringify(c) : c \in StoredContexts})

\* one call of each loader on the file as it is
LoadSnapshot ==
  /\ probe' = [kind |-> "load",
               existing |-> loadExistingContext(live),
               raw |-> loadContext(live)]
  /\ FilesUnchanged
  /\ UNCHANGED <<now, lastCommit, keyMtime, last>>

SpecLoad == InitLoad /\ [][LoadSnapshot]_vars

\* SpecScanner: scanProjects on its own, over every list of paths and every
\* way the paths can be gone or fail
Messages == {"EACCES", "Unknown error"}

\* a list of paths with each path all right, gone, or failing to analyse
PathFates(lists, mayBeGone) ==
  {[paths |-> l, missing |-> g, failing |-> f] :
     l \in lists, g \in SUBSET (IF mayBeGone THEN Paths ELSE {}), f \in SUBSET Paths}

ScannerCalls ==
  {[kind |-> "scanArgs", onlyPaths |-> c.paths, rootExists |-> TRUE,
    candidates |-> <<>>, missing |-> c.missing, failing |-> c.failing,
    messages |-> m] :
     c \in {d \in PathFates(DistinctSeqs(Paths) \ {<<>>}, TRUE) :
              /\ d.missing \cup d.failing \subseteq Range(d.paths)
              /\ d.missing \cap d.failing = {}},
     m \in [Paths -> Messages]}
  \cup
  {[kind |-> "scanArgs", onlyPaths |-> <<>>, rootExists |-> TRUE,
    candidates |-> c.paths, missing |-> {}, failing |-> c.failing,
    messages |-> m] :
     c \in {d \in PathFates(Candidates(Paths), FALSE) :
              d.failing \subseteq Range(d.paths)},
     m \in [Paths -> Messages]}

InitScanner ==
  /\ now = 1
  /\ live = JsonStringify(CurrentContext)
  /\ bak = AbsentFile
  /\ md = AbsentMd
  /\ tmpJson = FALSE
  /\ tmpMd = FALSE
  /\ lastCommit = [p \in Paths |-> IF p = "B" THEN 0 ELSE NoTime]
  /\ keyMtime = [p \in Paths |-> NoTime]
  /\ last = Idle
  /\ probe \in ScannerCalls

\* one call of scanProjects
ScanList ==
  /\ probe.kind = "scanArgs"
  /\ probe' = [probe EXCEPT !.kind = "scanned"]
                 @@ [projects |->
                       scanProjects(probe.onlyPaths, probe.rootExists,
                                    probe.candidates, probe.missing,
                                    probe.failing, live, now),
                     errors |->
                       scanErrors(probe.onlyPaths, probe.rootExists,
                                  probe.candidates, probe.missing,
                                  probe.failing, probe.messages, live)]
  /\ FilesUnchanged
  /\ UNCHANGED <<now, lastCommit, keyMtime, last>>

SpecScanner == InitScanner /\ [][ScanList]_vars

\* SpecGit: the VCS part of analyzeProject on its own, over every way the
\* two git queries can end
GitOutcomes == {"ok", "fail", "hang"}

GitCalls ==
  {[kind |-> "gitArgs", hasGit |-> g, log |-> l, status |-> st] :
     g \in BOOLEAN,
     l \in [outcome : GitOutcomes, latest : {NoTime} \cup 0..MaxTime],
     st \in [outcome : GitOutcomes, current : {"", "main"}, clean : BOOLEAN]}

InitGit ==
  /\ now = MaxTime
  /\ live = AbsentFile
  /\ bak = AbsentFile
  /\ md = AbsentMd
  /\ tmpJson = FALSE
  /\ tmpMd = FALSE
  /\ lastCommit = [p \in Paths |-> NoTime]
  /\ keyMtime = [p \in Paths |-> NoTime]
  /\ last = Idle
  /\ probe \in GitCalls

\* the VCS part of one call of analyzeProject
InspectGit ==
  /\ probe.kind = "gitArgs"
  /\ probe' = [probe EXCEPT !.kind = "gitInfo"]
                 @@ [result |-> gitInfo(probe.hasGit, probe.log, probe.status, now)]
  /\ FilesUnchanged
  /\ UNCHANGED <<now, lastCommit, keyMtime, last>>

SpecGit == InitGit /\ [][InspectGit]_vars

\* SpecDetect: findProjectRoots on its own, over every placing of marker
\* files in the tree, every maxDepth and one unreadable directory at most
DetectorCalls ==
  {[kind |-> "detectArgs", maxDepth |-> d, markers |-> m, unreadable |-> u] :
     d \in 0..MaxDepth,
     m \in SUBSET DirTree,
     u \in {{}} \cup {{x} : x \in DirTree}}

InitDetect ==
  /\ now = 0
  /\ live = AbsentFile
  /\ bak = AbsentFile
  /\ md = AbsentMd
  /\ tmpJson = FALSE
  /\ tmpMd = FALSE
  /\ lastCommit = [p \in Paths |-> NoTime]
  /\ keyMtime = [p \in Paths |-> NoTime]
  /\ last = Idle
  /\ probe \in DetectorCalls

\* one call of findProjectRoots
DetectRoots ==
  /\ probe.kind = "detectArgs"
  /\ probe' = [probe EXCEPT !.kind = "detected"]
                 @@ [roots |-> findProjectRoots(probe.maxDepth, probe.markers,
                                                probe.unreadable)]
  /\ FilesUnchanged
  /\ UNCHANGED <<now, lastCommit, keyMtime, last>>

SpecDetect == InitDetect /\ [][DetectRoots]_vars

(***************************************************************************)
(* license/index.ts and the search_code tool                               *)
(***************************************************************************)
\* license.json: missing (never activated, or removed by deactivateLicense),
\* not parseable, or a License object; expiresAt is an optional key
License(plan, hasExpiry, expiresAt) ==
  [kind |-> "json", plan |-> plan, hasExpiry |-> hasExpiry,
   expiresAt |-> expiresAt]

AbsentLicense == [kind |-> "absent", plan |-> "free", hasExpiry |-> FALSE,
                  expiresAt |-> NoTime]
CorruptLicense == [kind |-> "corrupt", plan |-> "free", hasExpiry |-> FALSE,
                   expiresAt |-> NoTime]

\* loadLicense: null for a missing file and for one JSON.parse rejects
loadLicense(file) ==
  IF file.kind = "json"
  THEN [some |-> TRUE, license |-> file]
  ELSE [some |-> FALSE, license |-> AbsentLicense]

\* a licence gate that does not look at expiresAt
isProIgnoringExpiry(file, time) ==
  LET loaded == loadLicense(file)
  IN loaded.some /\ loaded.license.plan = "pro"

\* isPro
isPro(file, time) ==
  LET loaded == loadLicense(file)
  IN IF ~loaded.some THEN FALSE
     ELSE IF loaded.license.plan # "pro" THEN FALSE
     ELSE IF loaded.license.hasExpiry /\ loaded.license.expiresAt < time
          THEN FALSE
     ELSE TRUE

\* deactivateLicense: unlinkSync(LICENSE_PATH)
deactivateLicense(file) == AbsentLicense

\* String.prototype.trim over a query of characters
RECURSIVE TrimStart(_)
TrimStart(s) ==
  IF s # <<>> /\ Head(s) = " " THEN TrimStart(Tail(s)) ELSE s

RECURSIVE TrimEnd(_)
TrimEnd(s) ==
  IF s # <<>> /\ s[Len(s)] = " " THEN TrimEnd(SubSeq(s, 1, Len(s) - 1)) ELSE s

Trim(s) == TrimEnd(TrimStart(s))

\* handleSearchCode: the message returned and the project directories
\* searchCode walked and read
handleSearchCode(query, license, file, time) ==
  IF ~isPro(license, time)
  THEN [message |-> "proFeature", read |-> {}]
  ELSE LET context == loadContext(file)
       IN IF ~context.some
          THEN [message |-> "noProjects", read |-> {}]
          ELSE IF Len(Trim(query)) = 0
          THEN [message |-> "noQuery", read |-> {}]
          ELSE [message |-> "results",
                read |-> Range(PathsOf(context.ctx.projects))]

\* SpecLicense: search_code on its own, in every state of license.json, at
\* every time, with and without a snapshot
Licenses ==
  {AbsentLicense, CorruptLicense, deactivateLicense(License("pro", FALSE, NoTime))}
    \cup {License(plan, FALSE, NoTime) : plan \in {"free", "pro"}}
    \cup {License(plan, TRUE, e) : plan \in {"free", "pro"}, e \in 0..MaxTime}

Queries == {<<>>, <<" ">>, <<"x">>, <<" ", "x">>}

InitLicense ==
  /\ now \in 0..MaxTime
  /\ live \in {AbsentFile, JsonStringify(CurrentContext)}
  /\ bak = AbsentFile
  /\ md = AbsentMd
  /\ tmpJson = FALSE
  /\ tmpMd = FALSE
  /\ lastCommit = [p \in Paths |-> NoTime]
  /\ keyMtime = [p \in Paths |-> NoTime]
  /\ last = Idle
  /\ probe \in
        {[kind |-> "searchArgs", license |-> l, query |-> q] :
           l \in Licenses, q \in Queries}

\* one call of the search_code tool
SearchCode ==
  /\ probe.kind = "searchArgs"
  /\ probe' = [probe EXCEPT !.kind = "searched"]
                 @@ [result |-> handleSearchCode(probe.query, probe.license,
                                                 live, now)]
  /\ FilesUnchanged
  /\ UNCHANGED <<now, lastCommit, keyMtime, last>>

SpecLicense == InitLicense /\ [][SearchCode]_vars

(***************************************************************************)
(* utils/updateChecker.ts                                                  *)
(***************************************************************************)
\* CHECK_INTERVAL_HOURS, 24 hours in the unit of now
CHECK_INTERVAL == DayLen

\* versions as major.minor.patch; NoVersion is null
NoVersion == <<>>
Versions == {<<1, 0, 0>>, <<1, 1, 0>>}
CURRENT_VERSION == <<1, 0, 0>>

\* update-check.json: missing, not parseable, or an UpdateCache object
UpdateCache(lastChecked, latestVersion) ==
  [kind |-> "json", lastChecked |-> lastChecked, latestVersion |-> latestVersion]

AbsentCache == [kind |-> "absent", lastChecked |-> NoTime, latestVersion |-> NoVersion]
CorruptCache == [kind |-> "corrupt", lastChecked |-> NoTime, latestVersion |-> NoVersion]

\* loadCache: null for a missing file and on any error
loadCache(file) ==
  IF file.kind = "json"
  THEN [some |-> TRUE, cache |-> file]
  ELSE [some |-> FALSE, cache |-> AbsentCache]

\* saveCache: errors are ignored, the file is then as it was
saveCache(file, cache, saveFails) == IF saveFails THEN file ELSE cache

\* isNewer: the first of the three parts that differs decides
RECURSIVE isNewerFrom(_, _, _)
isNewerFrom(i, currentVersion, latestVersion) ==
  IF i > 3 THEN FALSE
  ELSE IF latestVersion[i] > currentVersion[i] THEN TRUE
  ELSE IF latestVersion[i] < currentVersion[i] THEN FALSE
  ELSE isNewerFrom(i + 1, currentVersion, latestVersion)

isNewer(currentVersion, latestVersion) == isNewerFrom(1, currentVersion, latestVersion)

\* checkForUpdate: the cache answers when it is younger than the interval
\* and holds a version; otherwise the registry is asked (fetched = what
\* fetchLatestVersion resolves with, NoVersion on error or timeout) and the
\* answer is saved
checkForUpdate(currentVersion, file, fetched, saveFails, time) ==
  LET loaded == loadCache(file)
      recent == /\ loaded.some
                /\ time - loaded.cache.lastChecked < CHECK_INTERVAL
                /\ loaded.cache.latestVersion # NoVersion
  IN IF recent
     THEN [fetch |-> FALSE, file |-> file,
           latestVersion |-> loaded.cache.latestVersion,
           updateAvailable |-> isNewer(currentVersion, loaded.cache.latestVersion)]
     ELSE [fetch |-> TRUE,
           file |-> saveCache(file, UpdateCache(time, fetched), saveFails),
           latestVersion |-> fetched,
           updateAvailable |-> IF fetched = NoVersion THEN FALSE
                               ELSE isNewer(currentVersion, fetched)]

\* SpecUpdate: calls of checkForUpdate as time passes.  probe holds
\* update-check.json, the time of the last registry fetch, the last result,
\* and called, which changes with every call.
InitUpdate ==
  /\ now = 0
  /\ live = AbsentFile
  /\ bak = AbsentFile
  /\ md = AbsentMd
  /\ tmpJson = FALSE
  /\ tmpMd = FALSE
  /\ lastCommit = [p \in Paths |-> NoTime]
  /\ keyMtime = [p \in Paths |-> NoTime]
  /\ last = Idle
  /\ probe \in {[kind |-> "update", file |-> f, lastFetch |-> NoTime,
                 called |-> FALSE, fetch |-> FALSE, latestVersion |-> NoVersion,
                 updateAvailable |-> FALSE] : f \in {AbsentCache, CorruptCache}}

\* one call of checkForUpdate
CheckForUpdate ==
  \E fetched \in Versions \cup {NoVersion}, saveFails \in BOOLEAN :
    LET r == checkForUpdate(CURRENT_VERSION, probe.file, fetched, saveFails, now)
    IN /\ probe.kind = "update"
       /\ probe' = [probe EXCEPT !.file = r.file,
                                 !.lastFetch = IF r.fetch THEN now ELSE @,
                                 !.called = ~@,
                                 !.fetch = r.fetch,
                                 !.latestVersion = r.latestVersion,
                                 !.updateAvailable = r.updateAvailable]
       /\ FilesUnchanged
       /\ UNCHANGED <<now, lastCommit, keyMtime, last>>

\* half a day passes
HalfDay ==
  /\ now + 1 <= MaxTime
  /\ now' = now + 1
  /\ FilesUnchanged
  /\ UNCHANGED <<lastCommit, keyMtime, last, probe>>

NextUpdate == CheckForUpdate \/ HalfDay

SpecUpdate == InitUpdate /\ [][NextUpdate]_vars

\* SpecBackup: writeGlobalContext called again and again with snapshots of
\* one or two projects, under every fault, over every state of context.json
SnapshotsToWrite ==
  {GlobalContext(TRUE, SCHEMA_VERSION, 0, ps, <<>>, <<>>, TRUE, <<>>) :
     ps \in {<<ProjectInfo("A", 0, 0)>>, <<ProjectInfo("B", 0, 0)>>,
             <<ProjectInfo("A", 0, 0), ProjectInfo("B", 0, 0)>>}}

InitBackup ==
  /\ now = 0
  /\ live \in {AbsentFile, CorruptFile, JsonStringify(LegacyContext)}
  /\ bak \in {AbsentFile, JsonStringify(CurrentContext)}
  /\ md = AbsentMd
  /\ tmpJson = FALSE
  /\ tmpMd = FALSE
  /\ lastCommit = [p \in Paths |-> NoTime]
  /\ keyMtime = [p \in Paths |-> NoTime]
  /\ last = Idle
  /\ probe = NoProbe

\* one call of writeGlobalContext
PersistSnapshot ==
  \E context \in SnapshotsToWrite, run \in PersistRuns :
    LET fs == writeGlobalContext(context, Files, run.fault, run.backupFails,
                                 run.cleanup)
    IN /\ live' = fs.live
       /\ bak' = fs.bak
       /\ md' = fs.md
       /\ tmpJson' = fs.tmpJson
       /\ tmpMd' = fs.tmpMd
       /\ probe' = [kind |-> "persisted", context |-> context,
                    fault |-> run.fault, backupFails |-> run.backupFails,
                    raised |-> fs.raised]
       /\ UNCHANGED <<now, lastCommit, keyMtime, last>>

SpecBackup == InitBackup /\ [][PersistSnapshot]_vars

\* SpecWriters: two invocations inside writeGlobalContext at once, no fault
\* but what the other does.  Each file-system call is one step; both use the
\* same paths context.json.tmp and global-context.md.tmp.  probe holds the
\* content of the two temp files, each writer's context and position, and
\* which writer's rename of context.json.tmp came last.
Writers == {1, 2}

InitWriters ==
  /\ now = 0
  /\ live \in {AbsentFile, JsonStringify(CurrentContext)}
  /\ bak = AbsentFile
  /\ md = AbsentMd
  /\ tmpJson = FALSE
  /\ tmpMd = FALSE
  /\ lastCommit = [p \in Paths |-> NoTime]
  /\ keyMtime = [p \in Paths |-> NoTime]
  /\ last = Idle
  /\ probe \in {[kind |-> "writers", context |-> c,
                 pc |-> [w \in Writers |-> "backup"],
                 jsonTemp |-> AbsentFile, mdTemp |-> AbsentMd,
                 renamed |-> 0] :
                  c \in {c \in [Writers -> SnapshotsToWrite] : c[1] # c[2]}}

\* lines 89-96: existsSync(jsonPath), copyFileSync(jsonPath, jsonBackupPath)
BackupStep(w) ==
  /\ probe.kind = "writers" /\ probe.pc[w] = "backup"
  /\ bak' = backup(Files, FALSE)
  /\ probe' = [probe EXCEPT !.pc[w] = "writeJson"]
  /\ UNCHANGED <<live, md, tmpJson, tmpMd>>
  /\ UNCHANGED <<now, lastCommit, keyMtime, last>>

\* lines 99-100: writeFileSync(jsonTempPath, JSON.stringify(context))
WriteJsonStep(w) ==
  /\ probe.kind = "writers" /\ probe.pc[w] = "writeJson"
  /\ tmpJson' = TRUE
  /\ probe' = [probe EXCEPT !.pc[w] = "writeMd",
                            !.jsonTemp = JsonStringify(probe.context[w])]
  /\ UNCHANGED <<live, bak, md, tmpMd>>
  /\ UNCHANGED <<now, lastCommit, keyMtime, last>>

\* lines 102-103: writeFileSync(mdTempPath, formatGlobalContextMarkdown(context))
WriteMdStep(w) ==
  /\ probe.kind = "writers" /\ probe.pc[w] = "writeMd"
  /\ tmpMd' = TRUE
  /\ probe' = [probe EXCEPT !.pc[w] = "verify",
                            !.mdTemp = formatGlobalContextMarkdown(probe.context[w])]
  /\ UNCHANGED <<live, bak, md, tmpJson>>
  /\ UNCHANGED <<now, lastCommit, keyMtime, last>>

\* lines 105-111: read the temp file back (it throws when the file is gone)
\* and compare the counts
VerifyStep(w) ==
  /\ probe.kind = "writers" /\ probe.pc[w] = "verify"
  /\ probe' = [probe EXCEPT !.pc[w] =
                 IF tmpJson /\ VerificationPasses(probe.jsonTemp, probe.context[w])
                 THEN "renameJson" ELSE "unlinkJson"]
  /\ FilesUnchanged
  /\ UNCHANGED <<now, lastCommit, keyMtime, last>>

\* line 114: renameSync(jsonTempPath, jsonPath), throws when the temp is gone
RenameJsonStep(w) ==
  /\ probe.kind = "writers" /\ probe.pc[w] = "renameJson"
  /\ IF tmpJson
     THEN /\ live' = probe.jsonTemp
          /\ tmpJson' = FALSE
          /\ probe' = [probe EXCEPT !.pc[w] = "renameMd", !.jsonTemp = AbsentFile,
                                    !.renamed = w]
     ELSE /\ probe' = [probe EXCEPT !.pc[w] = "unlinkJson"]
          /\ UNCHANGED <<live, tmpJson>>
  /\ UNCHANGED <<bak, md, tmpMd>>
  /\ UNCHANGED <<now, lastCommit, keyMtime, last>>

\* line 115: renameSync(mdTempPath, mdPath), throws when the temp is gone
RenameMdStep(w) ==
  /\ probe.kind = "writers" /\ probe.pc[w] = "renameMd"
  /\ IF tmpMd
     THEN /\ md' = probe.mdTemp
          /\ tmpMd' = FALSE
          /\ probe' = [probe EXCEPT !.pc[w] = "done", !.mdTemp = AbsentMd]
     ELSE /\ probe' = [probe EXCEPT !.pc[w] = "unlinkJson"]
          /\ UNCHANGED <<md, tmpMd>>
  /\ UNCHANGED <<live, bak, tmpJson>>
  /\ UNCHANGED <<now, lastCommit, keyMtime, last>>

\* line 123 in the catch block: if (existsSync(jsonTempPath)) unlinkSync(jsonTempPath)
UnlinkJsonStep(w) ==
  /\ probe.kind = "writers" /\ probe.pc[w] = "unlinkJson"
  /\ tmpJson' = FALSE
  /\ probe' = [probe EXCEPT !.pc[w] = "unlinkMd", !.jsonTemp = AbsentFile]
  /\ UNCHANGED <<live, bak, md, tmpMd>>
  /\ UNCHANGED <<now, lastCommit, keyMtime, last>>

\* line 124 and the rethrow: if (existsSync(mdTempPath)) unlinkSync(mdTempPath)
UnlinkMdStep(w) ==
  /\ probe.kind = "writers" /\ probe.pc[w] = "unlinkMd"
  /\ tmpMd' = FALSE
  /\ probe' = [probe EXCEPT !.pc[w] = "raised", !.mdTemp = AbsentMd]
  /\ UNCHANGED <<live, bak, md, tmpJson>>
  /\ UNCHANGED <<now, lastCommit, keyMtime, last>>

NextWriters ==
  \E w \in Writers :
    \/ BackupStep(w)
    \/ WriteJsonStep(w)
    \/ WriteMdStep(w)
    \/ VerifyStep(w)
    \/ RenameJsonStep(w)
    \/ RenameMdStep(w)
    \/ UnlinkJsonStep(w)
    \/ UnlinkMdStep(w)

SpecWriters == InitWriters /\ [][NextWriters]_vars

\* SpecReport: detectStaleProjects on its own, over snapshots of up to three
\* projects in every order, scanned eight days, seven days or no time ago,
\* with or without a commit after the scan
ScanTimes == {0, DayLen, MaxTime}

InitReport ==
  /\ now = MaxTime
  /\ live = AbsentFile
  /\ bak = AbsentFile
  /\ md = AbsentMd
  /\ tmpJson = FALSE
  /\ tmpMd = FALSE
  /\ lastCommit \in [Paths -> {NoTime, MaxTime}]
  /\ keyMtime = [p \in Paths |-> NoTime]
  /\ last = Idle
  /\ probe \in
        {[kind |-> "reportArgs",
          context |-> GlobalContext(TRUE, SCHEMA_VERSION, MaxTime,
                                    [i \in DOMAIN order |->
                                       ProjectInfo(order[i], scanned[order[i]],
                                                   scanned[order[i]])],
                                    <<>>, <<>>, TRUE, <<>>)] :
           order \in DistinctSeqs(Paths), scanned \in [Paths -> ScanTimes]}

\* one call of detectStaleProjects
DetectStale ==
  /\ probe.kind = "reportArgs"
  /\ probe' = [probe EXCEPT !.kind = "report"]
                 @@ [report |-> detectStaleProjects(probe.context, now)]
  /\ FilesUnchanged
  /\ UNCHANGED <<now, lastCommit, keyMtime, last>>

SpecReport == InitReport /\ [][DetectStale]_vars

\* SpecAnalyse: a scan taken step by step, to see that it ends.  A quick
\* scan first asks hasNewCommits of every project (execSync, killed at its
\* timeout) and analyses those with a new commit; a full scan analyses the
\* candidates.  In analyzeProject git.log and git.status are awaited in a
\* race with a timer.  probe holds how git will behave for each project, the
\* position of the scan and the records so far.
ScanPaths == <<"A", "B">>

\* how the VCS behaves for a project in analyzeProject: no .git directory,
\* both queries answer, one of them rejects, one of them never answers
GitFates == {"nogit", "ok", "failLog", "failStatus", "hangLog", "hangStatus"}

\* how `git log -1` behaves in hasNewCommits: a commit after lastScanned, no
\* such commit (or an error), no answer
ExecFates == {"new", "none", "hang"}

InitAnalyse ==
  /\ now = MaxTime
  /\ live = AbsentFile
  /\ bak = AbsentFile
  /\ md = AbsentMd
  /\ tmpJson = FALSE
  /\ tmpMd = FALSE
  /\ lastCommit = [p \in Paths |-> 0]
  /\ keyMtime = [p \in Paths |-> NoTime]
  /\ last = Idle
  /\ probe \in
        {[kind |-> "scan", mode |-> "full", at |-> "loop", pending |-> <<>>,
          queue |-> ScanPaths, queued |-> ScanPaths, projects |-> <<>>,
          git |-> g, exec |-> [p \in Range(ScanPaths) |-> "none"],
          current |-> GitDefaults(MaxTime), timedOut |-> {}] :
           g \in [Range(ScanPaths) -> GitFates]}
        \cup
        {[kind |-> "scan", mode |-> "quick", at |-> "detect", pending |-> ScanPaths,
          queue |-> <<>>, queued |-> <<>>, projects |-> <<>>,
          git |-> g, exec |-> e,
          current |-> GitDefaults(MaxTime), timedOut |-> {}] :
           g \in [Range(ScanPaths) -> GitFates], e \in [Range(ScanPaths) -> ExecFates]}

\* hasNewCommits: execSync returns, or throws (the result is then false)
ExecAnswers ==
  /\ probe.kind = "scan" /\ probe.at = "detect" /\ probe.pending # <<>>
  /\ LET p == Head(probe.pending)
     IN /\ probe.exec[p] # "hang"
        /\ probe' = [probe EXCEPT
                       !.pending = Tail(@),
                       !.queue = IF probe.exec[p] = "new" THEN Append(@, p) ELSE @,
                       !.queued = IF probe.exec[p] = "new" THEN Append(@, p) ELSE @]
  /\ FilesUnchanged
  /\ UNCHANGED <<now, lastCommit, keyMtime, last>>

\* hasNewCommits: execSync kills the child at timeout: 5000 and throws, the
\* catch block returns false
ExecTimeout ==
  /\ probe.kind = "scan" /\ probe.at = "detect" /\ probe.pending # <<>>
  /\ probe' = [probe EXCEPT !.pending = Tail(@),
                            !.timedOut = @ \cup {Head(probe.pending)}]
  /\ FilesUnchanged
  /\ UNCHANGED <<now, lastCommit, keyMtime, last>>

\* the staleness check is over, scanProjects is called with the stale paths
StartLoop ==
  /\ probe.kind = "scan" /\ probe.at = "detect" /\ probe.pending = <<>>
  /\ probe' = [probe EXCEPT !.at = "loop"]
  /\ FilesUnchanged
  /\ UNCHANGED <<now, lastCommit, keyMtime, last>>

\* the record analyzeProject returns is pushed and the loop goes on
Pushed(record) ==
  [probe EXCEPT !.at = "loop", !.queue = Tail(@),
                !.projects = Append(@, [path |-> Head(probe.queue)] @@ record),
                !.current = GitDefaults(now)]

\* analyzeProject up to the first await: defaults, existsSync(.git), git.log
BeginProject ==
  /\ probe.kind = "scan" /\ probe.at = "loop" /\ probe.queue # <<>>
  /\ probe' = IF probe.git[Head(probe.queue)] = "nogit"
              THEN Pushed(GitDefaults(now))
              ELSE [probe EXCEPT !.at = "log", !.current = GitDefaults(now)]
  /\ FilesUnchanged
  /\ UNCHANGED <<now, lastCommit, keyMtime, last>>

\* git.log resolves: lastActivity is assigned, git.status is awaited
LogAnswers ==
  /\ probe.kind = "scan" /\ probe.at = "log"
  /\ probe.git[Head(probe.queue)] \in {"ok", "failStatus", "hangStatus"}
  /\ probe' = [probe EXCEPT !.at = "status",
                            !.current.lastActivity = lastCommit[Head(probe.queue)]]
  /\ FilesUnchanged
  /\ UNCHANGED <<now, lastCommit, keyMtime, last>>

\* git.status resolves: the other two fields are assigned
StatusAnswers ==
  /\ probe.kind = "scan" /\ probe.at = "status"
  /\ probe.git[Head(probe.queue)] = "ok"
  /\ probe' = Pushed([probe.current EXCEPT !.currentBranch = "main"])
  /\ FilesUnchanged
  /\ UNCHANGED <<now, lastCommit, keyMtime, last>>

\* git.log or git.status rejects: the catch block keeps what is assigned
GitRejects ==
  /\ probe.kind = "scan"
  /\ \/ probe.at = "log" /\ probe.git[Head(probe.queue)] = "failLog"
     \/ probe.at = "status" /\ probe.git[Head(probe.queue)] = "failStatus"
  /\ probe' = Pushed(probe.current)
  /\ FilesUnchanged
  /\ UNCHANGED <<now, lastCommit, keyMtime, last>>

\* a timer that never fires
TimerNeverFires == FALSE /\ UNCHANGED vars

\* the 10 s timer rejects while gitOps is still waiting: Promise.race
\* rejects and the catch block keeps what is assigned
GitTimeout ==
  /\ probe.kind = "scan" /\ probe.at \in {"log", "status"}
  /\ probe' = [Pushed(probe.current) EXCEPT
                 !.timedOut = @ \cup {Head(probe.queue)}]
  /\ FilesUnchanged
  /\ UNCHANGED <<now, lastCommit, keyMtime, last>>

\* the loop is over: return projects
ReturnProjects ==
  /\ probe.kind = "scan" /\ probe.at = "loop" /\ probe.queue = <<>>
  /\ probe' = [probe EXCEPT !.kind = "returned"]
  /\ FilesUnchanged
  /\ UNCHANGED <<now, lastCommit, keyMtime, last>>

NextAnalyse ==
  \/ ExecAnswers
  \/ ExecTimeout
  \/ StartLoop
  \/ BeginProject
  \/ LogAnswers
  \/ StatusAnswers
  \/ GitRejects
  \/ GitTimeout
  \/ ReturnProjects

SpecAnalyse == InitAnalyse /\ [][NextAnalyse]_vars

\* synchronous code runs on, and a timer that is due fires: the event loop
\* is free while a query is awaited, and execSync enforces its own timeout
SpecAnalyseFair ==
  /\ SpecAnalyse
  /\ WF_vars(ExecTimeout)
  /\ WF_vars(StartLoop)
  /\ WF_vars(BeginProject)
  /\ WF_vars(GitTimeout)
  /\ WF_vars(ReturnProjects)

\* SpecRefresh: quick scans of a snapshot of A, B and C as days pass and
\* commits are made; a stale path may be gone or fail to analyse
NextRefresh ==
  \/ QuickScan(BackedRuns, Paths)
  \/ Tick
  \/ Commit({"B", "C"})

SpecRefresh == InitWith({JsonStringify(CurrentContext)}) /\ [][NextRefresh]_vars

(***************************************************************************)
(* mcp/server.ts: get_global_context, the current directory                *)
(***************************************************************************)
\* the path strings of the three projects, as characters: /a, /a2 and /a/s
PathText ==
  [p \in Paths |->
     CASE p = "A" -> <<"/", "a">>
       [] p = "B" -> <<"/", "a", "2">>
       [] OTHER -> <<"/", "a", "/", "s">>]

\* String.prototype.startsWith
startsWith(str, search) ==
  /\ Len(search) <= Len(str)
  /\ SubSeq(str, 1, Len(search)) = search

\* str.replace(/\/$/, '')
StripSlash(str) ==
  IF str # <<>> /\ str[Len(str)] = "/" THEN SubSeq(str, 1, Len(str) - 1) ELSE str

\* Array.prototype.find: the first project that matches, "none" for undefined
RECURSIVE Find(_, _)
Find(projects, matching) ==
  IF projects = <<>> THEN "none"
  ELSE IF Head(projects).path \in matching THEN Head(projects).path
  ELSE Find(Tail(projects), matching)

\* detectCurrentDirectoryStatus, lines 208-211: the known project of cwd
knownProject(cwd, context) ==
  LET normalizedCwd == StripSlash(cwd)
  IN Find(context.projects,
          {p \in Paths :
             \/ normalizedCwd = StripSlash(PathText[p])
             \/ startsWith(normalizedCwd, StripSlash(PathText[p]) \o <<"/">>)})

\* checkCurrentProjectStaleness: the project it picks for cwd and whether
\* that project is stale
checkCurrentProjectStaleness(context, cwd, time) ==
  LET project == Find(context.projects,
                      {p \in Paths :
                         \/ startsWith(cwd, PathText[p])
                         \/ startsWith(PathText[p], cwd)})
      Chosen == CHOOSE q \in Range(context.projects) : q.path = project
  IN IF project = "none"
     THEN [isStale |-> FALSE, project |-> "none"]
     ELSE [isStale |-> analyzeProjectStaleness(Chosen, time).stale,
           project |-> project]

\* handleGetGlobalContext with a cwd, up to the Stale line: the project the
\* directory is identified as, whether a Stale line is written and of which
\* project it speaks
handleGetGlobalContext(cwd, file, time) ==
  LET context == loadContext(file)
      known == IF context.some THEN knownProject(cwd, context.ctx) ELSE "none"
      currentStaleness ==
        IF context.some /\ known # "none"
        THEN checkCurrentProjectStaleness(context.ctx, cwd, time)
        ELSE [isStale |-> FALSE, project |-> "none"]
  IN [status |-> IF known # "none" THEN "known_project" ELSE "other",
      project |-> known,
      staleLine |-> currentStaleness.isStale,
      staleProject |-> IF currentStaleness.isStale
                       THEN currentStaleness.project ELSE "none"]

\* SpecOverview: get_global_context for a directory, over snapshots of up
\* to three projects in every order, each scanned long ago or just now
Cwds ==
  {PathText[p] : p \in Paths}
    \cup {<<"/", "a", "/">>, <<"/", "a", "/", "s", "/", "x">>, <<"/", "b">>}

InitOverview ==
  /\ now = MaxTime
  /\ live \in {AbsentFile} \cup
      {JsonStringify(c) : c \in
          {GlobalContext(TRUE, SCHEMA_VERSION, MaxTime,
                         [i \in DOMAIN order |->
                            ProjectInfo(order[i], scanned[order[i]], scanned[order[i]])],
                         <<>>, <<>>, TRUE, <<>>) :
             order \in DistinctSeqs(Paths), scanned \in [Paths -> {0, MaxTime}]}}
  /\ bak = AbsentFile
  /\ md = AbsentMd
  /\ tmpJson = FALSE
  /\ tmpMd = FALSE
  /\ lastCommit = [p \in Paths |-> NoTime]
  /\ keyMtime = [p \in Paths |-> NoTime]
  /\ last = Idle
  /\ probe \in {[kind |-> "overviewArgs", cwd |-> d, cache |-> AbsentCache] :
                  d \in Cwds}

\* one call of the get_global_context tool with a cwd; it also checks for
\* an update, which may write update-check.json
GetGlobalContext ==
  \E fetched \in Versions \cup {NoVersion}, saveFails \in BOOLEAN :
    /\ probe.kind = "overviewArgs"
    /\ probe' = [probe EXCEPT
                   !.kind = "overview",
                   !.cache = checkForUpdate(CURRENT_VERSION, probe.cache,
                                            fetched, saveFails, now).file]
                  @@ [result |-> handleGetGlobalContext(probe.cwd, live, now)]
    /\ FilesUnchanged
    /\ UNCHANGED <<now, lastCommit, keyMtime, last>>

SpecOverview == InitOverview /\ [][GetGlobalContext]_vars

\* SpecExclusion: exclude, include and record_insight, over every state of
\* context.json
NextExclusion ==
  \/ Exclude(Paths)
  \/ Include(Paths)
  \/ RecordInsight

SpecExclusion ==
  /\ InitWith({AbsentFile, CorruptFile, JsonStringify(LegacyContext),
               JsonStringify(CurrentContext)})
  /\ [][NextExclusion]_vars

(***************************************************************************)
(* Properties                                                              *)
(***************************************************************************)
ScanOps == {"full", "quick"}

\* the fields of a stored snapshot that no scan can derive
Durable(file) ==
  [insights |-> file.ctx.insights, excludedProjects |-> file.ctx.excludedProjects]

\* the indexes of the records of `projects` with path p
RecordsOf(projects, p) == {i \in DOMAIN projects : projects[i].path = p}

\* s is an initial part of t
IsPrefix(s, t) == Len(s) <= Len(t) /\ SubSeq(t, 1, Len(s)) = s

\* C11: after a full scan that writes the store, no project record has a
\* path in excludedProjects (the list of the snapshot written, and the list
\* stored when the scan ran), and the projects are exactly the records of
\* the paths the scan analysed.
\* Fails: the exclusions of a context.json without schemaVersion are not
\* seen by the scan (loadExistingContext migrates them away), so a project
\* excluded in such a file is analysed and stored by the next full scan.
FullScanLeavesExcludedOut ==
  [][(last'.op = "full" /\ last'.outcome = "written")
       => LET after == live'.ctx.projects
          IN /\ \A i \in DOMAIN after :
                  /\ after[i].path \notin Range(live'.ctx.excludedProjects)
                  /\ after[i].path \notin Range(live.ctx.excludedProjects)
                  /\ after[i] = analyzeProject(after[i].path, now)
             /\ PathsOf(after) = last'.scanned]_vars

\* C12: once a project is excluded, no scan, full or quick, analyses its
\* path while it is in excludedProjects.
\* Fails: exclude leaves the project's record in projects, the quick scan
\* takes its paths from the staleness of those records, and the quick path
\* of scanProjects does not look at excludedProjects.
ExcludedNeverAnalysed ==
  [][last'.op \in ScanOps
       => \A p \in Range(last'.scanned) :
            p \notin Range(live.ctx.excludedProjects)]_vars

\* the value a loader returns for "no snapshot"
NoSnapshot == [some |-> FALSE, ctx |-> NoContext]

\* the schema version of a stored object: (data.schemaVersion) || 0
StoredVersion(data) == IF data.hasVersion THEN data.schemaVersion ELSE 0

\* C13: a load of a missing context.json returns the no-snapshot value, a
\* load of an unparseable one returns the same value (it does not raise),
\* and the load leaves the file as it was.
LoadFailsOpen ==
  [][(probe'.kind = "load" /\ live.kind # "json")
       => /\ probe'.existing = NoSnapshot
          /\ probe'.raw = NoSnapshot
          /\ live' = live
          /\ bak' = bak
          /\ md' = md]_vars

\* C13 happens: an unparseable context.json was loaded and is still there
CorruptLoaded ==
  /\ probe.kind = "load"
  /\ live.kind = "corrupt"
  /\ ~probe.existing.some
  /\ ~probe.raw.some

\* C14: loading (loadExistingContext) a snapshot stored with a schema
\* version below the current one, or with none, returns it with the current
\* version and with its projects, insights, userPatterns and lastUpdated;
\* no load returns a version lower than the stored one.
MigratesForward ==
  (probe.kind = "load" /\ live.kind = "json")
    => LET stored == live.ctx
           loaded == probe.existing.ctx
       IN /\ probe.existing.some
          /\ loaded.hasVersion
          /\ loaded.schemaVersion >= StoredVersion(stored)
          /\ StoredVersion(stored) < SCHEMA_VERSION
               => /\ loaded.schemaVersion = SCHEMA_VERSION
                  /\ loaded.projects = stored.projects
                  /\ loaded.insights = stored.insights
                  /\ loaded.userPatterns = stored.userPatterns
                  /\ loaded.lastUpdated = stored.lastUpdated

\* C14 happens: a snapshot stored without schemaVersion, with projects,
\* an insight and a pattern, was loaded as one of the current version
LegacyLoaded ==
  /\ probe.kind = "load"
  /\ live.kind = "json"
  /\ ~live.ctx.hasVersion
  /\ Len(live.ctx.projects) = 2
  /\ live.ctx.insights = <<"n1">>
  /\ live.ctx.userPatterns = <<"tdd">>
  /\ live.ctx.lastUpdated = 1
  /\ probe.existing.ctx.schemaVersion = SCHEMA_VERSION

\* C15: every operation on an existing, parseable snapshot (full scan, quick
\* scan, record_insight, exclude, include) leaves the insights list as an
\* initial part of the list after it; record_insight adds exactly one entry,
\* at the end, and the others add none.
InsightsOnlyAppended ==
  [][(live.kind = "json"
        /\ last'.op \in ScanOps \cup {"insight", "exclude", "include"})
       => LET before == live.ctx.insights
              after == live'.ctx.insights
          IN /\ live'.kind = "json"
             /\ IsPrefix(before, after)
             /\ last'.op = "insight"
                  => /\ last'.outcome = "recorded"
                     /\ Len(after) = Len(before) + 1
                     /\ after[Len(after)] \in Contents
             /\ last'.op # "insight" => after = before]_vars

\* C15 happens: record_insight added a second insight after the first
SecondInsightRecorded ==
  /\ last.op = "insight"
  /\ last.outcome = "recorded"
  /\ live.kind = "json"
  /\ Len(live.ctx.insights) = 2
  /\ live.ctx.insights[1] = "n1"
  /\ live.ctx.insights[2] = "n2"

\* C16: record_insight with no context.json returns the no-snapshot message
\* as its result, creates no file and records nothing; the first scan after
\* it writes a snapshot with an empty insights list.
InsightNeedsSnapshot ==
  [][/\ (last'.op = "insight" /\ live.kind = "absent")
          => /\ last'.outcome = "nosnapshot"
             /\ live' = live
             /\ bak' = bak
             /\ md' = md
     /\ (last'.op \in ScanOps /\ last'.outcome = "written" /\ live.kind = "absent")
          => /\ live'.kind = "json"
             /\ live'.ctx.insights = <<>>]_vars

\* C16 happens: record_insight was called with no context.json and there
\* is still none
InsightRefused ==
  /\ last.op = "insight"
  /\ last.outcome = "nosnapshot"
  /\ live.kind = "absent"
  /\ bak.kind = "absent"
  /\ md.kind = "absent"

\* C17: in a scan over a list of candidate paths (the paths of a quick
\* scan that exist, or the detected roots that are not excluded), a failure
\* while analysing one does not end the scan: the result holds the record
\* of every candidate whose analysis succeeded, in candidate order, and
\* each failing path is recorded with its message and left out.
FailuresAreSkipped ==
  probe.kind = "scanned"
    => LET list ==
             IF probe.onlyPaths # <<>>
             THEN SelectPath(probe.onlyPaths, Paths \ probe.missing)
             ELSE SelectPath(probe.candidates,
                             Paths \ Range(live.ctx.excludedProjects))
           succeeded == SelectPath(list, Paths \ probe.failing)
           failed == SelectPath(list, probe.failing)
       IN /\ PathsOf(probe.projects) = succeeded
          /\ \A i \in DOMAIN probe.projects :
               probe.projects[i] = analyzeProject(succeeded[i], now)
          /\ PathsOf(probe.errors) = failed
          /\ \A i \in DOMAIN probe.errors :
               probe.errors[i].error = probe.messages[failed[i]]

\* C17 happens: of three paths the second failed, and the first and the
\* third are in the result
MiddleFailureSkipped ==
  /\ probe.kind = "scanned"
  /\ probe.onlyPaths = <<"C", "B", "A">>
  /\ probe.missing = {}
  /\ probe.failing = {"B"}
  /\ PathsOf(probe.projects) = <<"C", "A">>
  /\ probe.errors = <<[path |-> "B", error |-> "EACCES"]>>

\* C18: when a VCS query of a project fails or the timeout fires, also
\* after an earlier query has succeeded, the record has the three VCS
\* fields at their defaults: currentBranch "unknown", isDirty false,
\* lastActivity the scan time.
\* Fails: the date of the latest commit is assigned as soon as git.log has
\* answered, and stays when git.status then fails or times out.
GitFailureGivesDefaults ==
  (/\ probe.kind = "gitInfo"
   /\ probe.hasGit
   /\ (probe.log.outcome # "ok" \/ probe.status.outcome # "ok"))
    => probe.result = GitDefaults(now)

\* C19: of the roots the detector returns none is an ancestor directory of
\* another (nor returned twice); each holds a marker file, is at most
\* maxDepth below the scan root, and has no ignored name on its way from
\* the scan root.
NoNestedRoots ==
  probe.kind = "detected"
    => /\ \A i, j \in DOMAIN probe.roots :
            i # j => ~IsPrefix(probe.roots[i], probe.roots[j])
       /\ \A i \in DOMAIN probe.roots :
            LET root == probe.roots[i]
            IN /\ root \in probe.markers
               /\ Len(root) <= probe.maxDepth
               /\ \A k \in DOMAIN root : root[k] \notin Ignore

\* C19 happens: the only project root under the scan root holds a nested
\* manifest, another manifest lies too deep, another under node_modules,
\* and the outer root alone is returned
OuterRootOnly ==
  /\ probe.kind = "detected"
  /\ probe.maxDepth = 2
  /\ probe.unreadable = {}
  /\ probe.markers = {<<"a">>, <<"a", "b">>, <<"node_modules", "e">>}
  /\ probe.roots = << <<"a">> >>

\* C20: a check (dry-run) scan writes nothing, whatever its staleness
\* report: context.json with every project record, context.json.bak,
\* global-context.md and the temp files are as before, and no project is
\* analysed.
CheckWritesNothing ==
  [][last'.op = "check"
       => /\ live' = live
          /\ bak' = bak
          /\ md' = md
          /\ tmpJson' = tmpJson
          /\ tmpMd' = tmpMd
          /\ last'.scanned = <<>>
          /\ last'.merge = "none"]_vars

\* C20 happens: a check reported stale projects while a snapshot, its
\* backup and its rendering were in place
CheckReportedStale ==
  /\ last.op = "check"
  /\ last.outcome = "reported"
  /\ last.report # <<>>
  /\ live.kind = "json"
  /\ bak.kind = "json"
  /\ md.kind = "md"

\* C21: search_code performs a search (reads project files, answers with
\* results) only when license.json holds a licence of plan pro that is not
\* past its expiresAt; with no licence, an unparseable one, plan free, an
\* expired one or a deactivated one it returns the Pro-feature message and
\* reads no project file.
LicensedNow ==
  /\ probe.license.kind = "json"
  /\ probe.license.plan = "pro"
  /\ ~(probe.license.hasExpiry /\ probe.license.expiresAt < now)

SearchNeedsPro ==
  probe.kind = "searched" =>
    /\ (probe.result.message = "results" \/ probe.result.read # {})
         => LicensedNow
    /\ ~LicensedNow =>
         (probe.result.message = "proFeature" /\ probe.result.read = {})

ExpiredLicenseRefused ==
  /\ probe.kind = "searched"
  /\ probe.license.kind = "json"
  /\ probe.license.plan = "pro"
  /\ probe.license.hasExpiry
  /\ probe.license.expiresAt < now
  /\ live.kind = "json"
  /\ Trim(probe.query) # <<>>
  /\ probe.result.message = "proFeature"
  /\ probe.result.read = {}

\* C22: the registry is contacted at most once per 24 hours: a call of
\* checkForUpdate made less than 24 hours after a registry fetch is answered
\* from the cache without a fetch, whatever that fetch returned.
OneFetchPerDay ==
  [][(probe.kind = "update" /\ probe.lastFetch # NoTime
        /\ now - probe.lastFetch < CHECK_INTERVAL
        /\ probe'.called # probe.called)
       => (~probe'.fetch /\ probe'.lastFetch = probe.lastFetch)]_vars

\* C23: after a persist that succeeds when context.json existed and the copy
\* did not fail, context.json.bak holds exactly what context.json held
\* immediately before the persist; and a failed copy does not stop the
\* persist: with no other fault it completes, context.json holds the new
\* snapshot and context.json.bak is left as it was.
BackupHoldsPrevious ==
  [][/\ (probe'.kind = "persisted" /\ ~probe'.raised
           /\ live.kind # "absent" /\ ~probe'.backupFails)
         => bak' = live
     /\ (probe'.kind = "persisted" /\ probe'.backupFails
           /\ probe'.fault = "none")
         => (/\ ~probe'.raised
             /\ live' = JsonStringify(probe'.context)
             /\ bak' = bak)]_vars

SecondPersistBackedUp ==
  /\ probe.kind = "persisted"
  /\ ~probe.raised
  /\ ~probe.backupFails
  /\ bak.kind = "json"
  /\ bak.ctx \in SnapshotsToWrite
  /\ live.kind = "json"
  /\ bak # live

\* C24: when the steps of two concurrent persists interleave, both finish
\* without an error caused by the other, and context.json is then the whole
\* snapshot of the writer whose rename came last.
LastWriterWins ==
  (probe.kind = "writers" /\ \A w \in Writers : probe.pc[w] \in {"done", "raised"})
    => /\ \A w \in Writers : probe.pc[w] = "done"
       /\ probe.renamed \in Writers
       /\ live = JsonStringify(probe.context[probe.renamed])

\* C25: in every staleness report staleProjects is in non-increasing order
\* of daysSinceScanned, entries with equal daysSinceScanned are in the order
\* of the snapshot's project list, every project of the snapshot appears at
\* most once, and freshCount is the number of projects less the number of
\* stale ones.
PlaceIn(projects, p) == CHOOSE i \in DOMAIN projects : projects[i].path = p

ReportIsSorted ==
  probe.kind = "report" =>
    LET stale == probe.report.staleProjects
        projects == probe.context.projects
    IN /\ \A i, j \in DOMAIN stale :
            i < j =>
              /\ stale[i].daysSinceScanned >= stale[j].daysSinceScanned
              /\ stale[i].path # stale[j].path
              /\ stale[i].daysSinceScanned = stale[j].daysSinceScanned
                   => PlaceIn(projects, stale[i].path) < PlaceIn(projects, stale[j].path)
       /\ \A i \in DOMAIN stale : \E k \in DOMAIN projects : projects[k].path = stale[i].path
       /\ probe.report.freshCount = Len(projects) - Len(stale)

TieKeptInOrder ==
  /\ probe.kind = "report"
  /\ Len(probe.context.projects) = 3
  /\ Len(probe.report.staleProjects) = 3
  /\ probe.report.staleProjects[1].daysSinceScanned
       > probe.report.staleProjects[2].daysSinceScanned
  /\ probe.report.staleProjects[2].daysSinceScanned
       = probe.report.staleProjects[3].daysSinceScanned
  /\ probe.report.staleProjects[1].path = probe.context.projects[3].path
  /\ probe.report.freshCount = 0

\* C26: the analysis of a project always completes with a record, also when
\* the VCS never answers: the wait ends when the timeout fires, the scan
\* goes on with the next project, and a scan over finitely many candidates
\* eventually returns, with a record for every project it analysed.
ScanEventuallyReturns ==
  <>(probe.kind = "returned" /\ PathsOf(probe.projects) = probe.queued)

ReturnedAfterTimeout ==
  /\ probe.kind = "returned"
  /\ probe.mode = "full"
  /\ probe.git["A"] = "hangLog"
  /\ "A" \in probe.timedOut
  /\ PathsOf(probe.projects) = ScanPaths

\* C27 (as stated): after a quick scan that writes the store, a staleness
\* check made at once, with no commit and no key-file change in between,
\* reports no stale project.
StaleAt(file) == Range(PathsOf(detectStaleProjects(file.ctx, now).staleProjects))

QuickScanLeavesNothingStale ==
  [][(last'.op = "quick" /\ last'.outcome = "written") => StaleAt(live)' = {}]_vars

\* C27 (amended): after a quick scan that writes the store, every project
\* that was stale and was rescanned (its path exists and its analysis did
\* not throw) has lastScanned at the scan time, and a staleness check made
\* at once reports exactly the stale projects that were skipped.
QuickScanRefreshesRescanned ==
  [][(last'.op = "quick" /\ last'.outcome = "written") =>
       /\ \A p \in StaleAt(live) \cap Range(last'.scanned) :
            \A i \in DOMAIN live'.ctx.projects :
              live'.ctx.projects[i].path = p
                => live'.ctx.projects[i].lastScanned = now
       /\ StaleAt(live)' = StaleAt(live) \ Range(last'.scanned)]_vars

SkippedProjectStaysStale ==
  /\ last.op = "quick"
  /\ last.outcome = "written"
  /\ last.scanned = <<"B">>
  /\ StaleAt(live) = {"A", "C"}

\* C28: the project whose staleness get_global_context reports for a
\* directory is the project the directory was identified as (the known
\* project whose path is the directory or an ancestor of it): a Stale line
\* never speaks of another project.
StalenessOfIdentifiedProject ==
  (probe.kind = "overview" /\ probe.result.staleLine)
    => probe.result.staleProject = probe.result.project

ScansWriteCurrentSchema ==
  [][(last'.op \in ScanOps /\ last'.outcome = "written") =>
       /\ live'.kind = "json"
       /\ live'.ctx.hasVersion
       /\ live'.ctx.schemaVersion = SCHEMA_VERSION
       /\ live'.ctx.hasExcluded]_vars

\* C1: a scan, full or quick, whatever it rescans, leaves the snapshot's
\* insights and excludedProjects exactly as they were before it.
\* Fails: a context.json without schemaVersion that `exclude` has added an
\* exclusion to loses the exclusion at the next full scan (migrateContext
\* resets excludedProjects for every version below 1).
ScansKeepDurableFields ==
  [][last'.op \in ScanOps => Durable(live') = Durable(live)]_vars

\* C2: whenever the persist of a scan raises, the live context.json holds
\* exactly what it held before the call (a call that made new data visible
\* does not raise).
\* Fails: when the rename of the markdown temp file throws, context.json has
\* already been replaced by the rename before it.
RaisedPersistLeavesLive ==
  [][(last'.op \in ScanOps /\ last'.outcome = "raised") => live' = live]_vars

LoadAfterPersistRoundTrips ==
  (last.op \in ScanOps /\ last.outcome = "written")
    => LET S == live.ctx
           loaded == loadExistingContext(live)
       IN /\ loaded.some
          /\ Len(loaded.ctx.projects) = Len(S.projects)
          /\ loaded.ctx.excludedProjects = S.excludedProjects
          /\ loaded.ctx.insights = S.insights

\* C5: after a quick scan that merged incrementally, every project of the
\* prior snapshot whose path was not rescanned is present with its prior
\* record, every rescanned path is present exactly once and with its fresh
\* record, and the set of project paths is the one before the scan.
QuickScanFrame ==
  [][(last'.op = "quick" /\ last'.merge = "incremental" /\ last'.outcome = "written")
       => LET before == live.ctx.projects
              after == live'.ctx.projects
              rescanned == Range(last'.scanned)
          IN /\ \A i \in DOMAIN before :
                  before[i].path \notin rescanned
                    => /\ Cardinality(RecordsOf(after, before[i].path)) = 1
                       /\ \E j \in DOMAIN after : after[j] = before[i]
             /\ \A p \in rescanned :
                  /\ Cardinality(RecordsOf(after, p)) = 1
                  /\ \E j \in DOMAIN after : after[j] = analyzeProject(p, now)
             /\ Range(PathsOf(after)) = Range(PathsOf(before))
             /\ Durable(live') = Durable(live)]_vars

\* C5 happens: of the snapshot A (excluded), B, C a quick scan rescanned B
\* alone, at a later time than the records of A and C
OnlyBRefreshed ==
  /\ last.op = "quick"
  /\ last.merge = "incremental"
  /\ last.outcome = "written"
  /\ last.scanned = <<"B">>
  /\ Range(PathsOf(live.ctx.projects)) = {"A", "B", "C"}
  /\ live.ctx.excludedProjects = <<"A">>
  /\ \E i, j, k \in DOMAIN live.ctx.projects :
       /\ live.ctx.projects[i] = ProjectInfo("A", 0, 0)
       /\ live.ctx.projects[j] = ProjectInfo("C", 0, 0)
       /\ live.ctx.projects[k].path = "B"
       /\ live.ctx.projects[k].lastScanned = now
       /\ now > 0

\* C6: a quick scan run when the staleness check of the stored snapshot
\* finds no stale project leaves the projects list (records and order)
\* unchanged, however often it is repeated.
QuickScanNothingStale ==
  [][(/\ last'.op = "quick"
      /\ loadContext(live).some
      /\ detectStaleProjects(live.ctx, now).staleProjects = <<>>)
       => /\ live'.kind = "json"
          /\ live'.ctx.projects = live.ctx.projects]_vars

\* C6 happens: a quick scan found the three projects of the snapshot fresh
\* and returned
QuickScanUpToDate ==
  /\ last.op = "quick"
  /\ last.outcome = "uptodate"
  /\ live.kind = "json"
  /\ Len(live.ctx.projects) = 3
  /\ detectStaleProjects(live.ctx, now).staleProjects = <<>>

\* C7: a scan that yields no project record (a full scan, or a quick scan
\* whose stale paths are all gone or all fail) writes nothing: context.json,
\* its backup and the markdown are as before; and no scan replaces a
\* snapshot that has projects by one that has none.
EmptyScanWritesNothing ==
  [][last'.op \in ScanOps
       => /\ (last'.outcome # "uptodate" /\ last'.scanned = <<>>)
               => (live' = live /\ bak' = bak /\ md' = md)
          /\ (live.kind = "json" /\ live.ctx.projects # <<>>)
               => (live'.kind = "json" /\ live'.ctx.projects # <<>>)]_vars

\* C7 happens: a full scan found nothing while a snapshot with projects, a
\* backup and a rendering were in place
EmptyScanOverSnapshot ==
  /\ last.op = "full"
  /\ last.outcome = "empty"
  /\ last.scanned = <<>>
  /\ live.kind = "json"
  /\ live.ctx.projects # <<>>
  /\ bak.kind = "json"
  /\ md.kind = "md"

\* C8: the reason reported for a stale project is the first that holds of
\* git_activity, file_changed, age, and a project is reported at most once:
\* new commits give git_activity whatever the age, a modified key file
\* without new commits gives file_changed whatever the age.
ReasonPriority ==
  (last.op = "check" /\ last.outcome = "reported")
    => \A i \in DOMAIN live.ctx.projects :
         LET project == live.ctx.projects[i]
             commits == hasNewCommits(project.path, project.lastScanned)
             files == hasModifiedFiles(project.path, project.lastScanned)
             verdicts == RecordsOf(last.report, project.path)
         IN /\ Cardinality(verdicts) <= 1
            /\ commits => \E j \in verdicts : last.report[j].reason = "git_activity"
            /\ (~commits /\ files)
                 => \E j \in verdicts : last.report[j].reason = "file_changed"
            /\ \A j \in verdicts :
                 /\ last.report[j].reason \in {"git_activity", "file_changed", "age"}
                 /\ last.report[j].reason = "age" => (~commits /\ ~files)

\* C8 happens: a project with new commits and a modified key file, last
\* scanned at least 7 days ago, was reported for its commits
CommitsBeforeAge ==
  /\ last.op = "check"
  /\ Len(last.report) = 1
  /\ last.report[1].reason = "git_activity"
  /\ now - live.ctx.projects[1].lastScanned >= STALE * DayLen
  /\ hasNewCommits("B", live.ctx.projects[1].lastScanned)
  /\ hasModifiedFiles("B", live.ctx.projects[1].lastScanned)

\* C9: a project with no commit and no key-file change after lastScanned is
\* reported, with reason age, exactly when at least 7 whole days have passed
\* since lastScanned, and is not reported otherwise.
AgeThreshold ==
  (last.op = "check" /\ last.outcome = "reported")
    => \A i \in DOMAIN live.ctx.projects :
         LET project == live.ctx.projects[i]
             verdicts == RecordsOf(last.report, project.path)
             sevenDays == now - project.lastScanned >= STALE * DayLen
         IN (/\ ~hasNewCommits(project.path, project.lastScanned)
             /\ ~hasModifiedFiles(project.path, project.lastScanned))
              => /\ sevenDays => \E j \in verdicts : last.report[j].reason = "age"
                 /\ ~sevenDays => verdicts = {}

\* C9 happens: a project scanned 8 days ago, with an older commit and no
\* newer key file, was reported for its age
EightDaysOld ==
  /\ last.op = "check"
  /\ now - live.ctx.projects[1].lastScanned = 8 * DayLen
  /\ lastCommit["B"] # NoTime
  /\ ~hasNewCommits("B", live.ctx.projects[1].lastScanned)
  /\ ~hasModifiedFiles("B", live.ctx.projects[1].lastScanned)
  /\ Len(last.report) = 1
  /\ last.report[1].reason = "age"
  /\ last.report[1].daysSinceScanned = 8

\* C10: in every stored snapshot that scans, exclude, include and
\* record_insight can lead to, no two project records have the same path.
UniquePaths ==
  live.kind = "json"
    => \A i, j \in DOMAIN live.ctx.projects :
         live.ctx.projects[i].path = live.ctx.projects[j].path => i = j

\* C10 happens: starting from no context.json, a scan stored two projects
\* and a quick scan then merged the rescan of one of them into the snapshot
MergedIntoTwo ==
  /\ last.op = "quick"
  /\ last.merge = "incremental"
  /\ last.outcome = "written"
  /\ Len(last.scanned) = 1
  /\ Len(live.ctx.projects) = 2
  /\ live.ctx.userPatterns = <<>>

====
